---- MODULE Spec2Model ----
(***************************************************************************)
(* Model of src/agent.h: the n-tuple network player of the 2048 framework  *)
(* (weight_agent + player): value function, 2-ply expectimax move choice,  *)
(* and the backward TD update run at the end of an episode.                *)
(*                                                                         *)
(* Numbers.  The code computes in float.  The model computes in exact      *)
(* rationals <<n, d>> (d > 0, lowest terms).  <<0, 0>> is the NaN that     *)
(* the float division 0/0 produces; MIN_FLOAT is kept symbolic.            *)
(*                                                                         *)
(* Tables.  Each of net, net_E, net_A is 4 arrays of 23^6 floats.  The     *)
(* model keeps only the entries written since init_weights, as a function  *)
(* on <<table, feature>>; an entry outside the domain has the value        *)
(* init_weights gave it.                                                   *)
(***************************************************************************)
EXTENDS Integers, Sequences, FiniteSets, TLC

VARIABLES net, net_E, net_A, alpha, history, alive, episodes, last

vars == <<net, net_E, net_A, alpha, history, alive, episodes, last>>

(***************************************************************************)
(* Program constants                                                       *)
(***************************************************************************)
MAX_INDEX == 23
tuple_number == 32
tuple_length == 6

(***************************************************************************)
(* Bounds of the model                                                     *)
(***************************************************************************)
MaxHist == 2
MaxEpisodes == 2

(***************************************************************************)
(* float arithmetic, modelled on exact rationals                           *)
(***************************************************************************)
RECURSIVE GCD(_, _)
GCD(a, b) == IF b = 0 THEN a ELSE GCD(b, a % b)

Abs(n) == IF n < 0 THEN -n ELSE n

NaN == <<0, 0>>

MIN_FLOAT == <<-1, 0>>

IsNaN(x) == x = NaN

RNorm(n, d) ==
    IF n = 0 THEN <<0, 1>>
    ELSE LET g == GCD(Abs(n), d) IN <<n \div g, d \div g>>

R(n) == <<n, 1>>

RAdd(x, y) ==
    IF IsNaN(x) \/ IsNaN(y) THEN NaN
    ELSE IF x = MIN_FLOAT \/ y = MIN_FLOAT THEN MIN_FLOAT
    ELSE IF x[1] = 0 THEN y
    ELSE IF y[1] = 0 THEN x
    ELSE IF x[2] = y[2] THEN RNorm(x[1] + y[1], x[2])
    ELSE LET g == GCD(x[2], y[2])
             xd == x[2] \div g
             yd == y[2] \div g
         IN  RNorm(x[1] * yd + y[1] * xd, x[2] * yd)

RNeg(x) == IF x[2] = 0 THEN x ELSE <<-x[1], x[2]>>

RSub(x, y) == RAdd(x, RNeg(y))

RMul(x, y) ==
    IF IsNaN(x) \/ IsNaN(y) THEN NaN
    ELSE IF x[1] = 0 \/ y[1] = 0 THEN <<0, 1>>
    ELSE LET g1 == GCD(Abs(x[1]), y[2])
             g2 == GCD(Abs(y[1]), x[2])
         IN  <<(x[1] \div g1) * (y[1] \div g2), (x[2] \div g2) * (y[2] \div g1)>>

\* x / y in float: 0/0 is NaN; the model never divides a non-zero value by 0
RDiv(x, y) ==
    IF IsNaN(x) \/ IsNaN(y) THEN NaN
    ELSE IF y[1] = 0 THEN NaN
    ELSE IF y[1] < 0 THEN RMul(x, <<-y[2], -y[1]>>)
    ELSE RMul(x, <<y[2], y[1]>>)

RFabs(x) == IF x[2] = 0 THEN x ELSE <<Abs(x[1]), x[2]>>

\* x > y in float: false when either side is NaN
RGt(x, y) ==
    IF IsNaN(x) \/ IsNaN(y) THEN FALSE
    ELSE IF x = MIN_FLOAT THEN FALSE
    ELSE IF y = MIN_FLOAT THEN TRUE
    ELSE IF x[2] = y[2] THEN x[1] > y[1]
    ELSE LET g == GCD(x[2], y[2])
         IN  x[1] * (y[2] \div g) > y[1] * (x[2] \div g)

RGeq(x, y) == x = y \/ RGt(x, y)

epsilon == <<1, 100000>>

lembda == <<1, 2>>

(***************************************************************************)
(* The board: 16 cells, linear index 0..15 kept at position index + 1      *)
(***************************************************************************)
Cell(b, i) == b[i + 1]

EmptyBoard == [i \in 1..16 |-> 0]

\* the cells of the 4 lines a slide works on, each from the end tiles move to
SlideLines ==
    <<  << <<0, 4, 8, 12>>, <<1, 5, 9, 13>>, <<2, 6, 10, 14>>, <<3, 7, 11, 15>> >>,
        << <<3, 2, 1, 0>>, <<7, 6, 5, 4>>, <<11, 10, 9, 8>>, <<15, 14, 13, 12>> >>,
        << <<12, 8, 4, 0>>, <<13, 9, 5, 1>>, <<14, 10, 6, 2>>, <<15, 11, 7, 3>> >>,
        << <<0, 1, 2, 3>>, <<4, 5, 6, 7>>, <<8, 9, 10, 11>>, <<12, 13, 14, 15>> >> >>

Pow2(n) == 2 ^ n

\* the tiles of one line, packed and merged pairwise from the front
RECURSIVE MergeLine(_)
MergeLine(ts) ==
    IF Len(ts) <= 1 THEN [out |-> ts, score |-> 0]
    ELSE IF ts[1] = ts[2]
         THEN LET rest == MergeLine(SubSeq(ts, 3, Len(ts)))
              IN  [out |-> <<ts[1] + 1>> \o rest.out,
                   score |-> Pow2(ts[1] + 1) + rest.score]
         ELSE LET rest == MergeLine(Tail(ts))
              IN  [out |-> <<ts[1]>> \o rest.out, score |-> rest.score]

NonZero(x) == x # 0

SlideLine(b, line) ==
    MergeLine(SelectSeq(<<Cell(b, line[1]), Cell(b, line[2]),
                          Cell(b, line[3]), Cell(b, line[4])>>, NonZero))

\* the line (1..4) of SlideLines[op + 1] that cell i lies on, and its place there
LineOf(op, i) == IF op = 0 \/ op = 2 THEN (i % 4) + 1 ELSE (i \div 4) + 1

PlaceOf(op, i) ==
    IF op = 0 THEN (i \div 4) + 1
    ELSE IF op = 1 THEN 4 - (i % 4)
    ELSE IF op = 2 THEN 4 - (i \div 4)
    ELSE (i % 4) + 1

\* board::slide(op): the board after the slide and the merge score, or -1
\* when the slide leaves the board as it was
\* the 4 lines ls of b, each packed and merged
MergedLines(b, ls) ==
    <<SlideLine(b, ls[1]), SlideLine(b, ls[2]), SlideLine(b, ls[3]), SlideLine(b, ls[4])>>

\* the tile at place j of a merged line, 0 behind its last tile
TileAt(out, j) == IF j <= Len(out) THEN out[j] ELSE 0

\* the board made of the merged lines m of direction op
SlideBoard(op, m) ==
    [i \in 1..16 |-> TileAt(m[LineOf(op, i - 1)].out, PlaceOf(op, i - 1))]

SlideScore(m) == m[1].score + m[2].score + m[3].score + m[4].score

SlideReturn(b, after, score) ==
    [board |-> after, reward |-> IF after = b THEN -1 ELSE score]

SlideMerged(b, op, m) == SlideReturn(b, SlideBoard(op, m), SlideScore(m))

slide(b, op) == SlideMerged(b, op, MergedLines(b, SlideLines[op + 1]))

(***************************************************************************)
(* agent::pattern                                                          *)
(***************************************************************************)
pattern ==
    <<  <<3, 2, 1, 0, 4, 5>>,
        <<0, 4, 8, 12, 13, 9>>,
        <<12, 13, 14, 15, 11, 10>>,
        <<15, 11, 7, 3, 2, 6>>,
        <<0, 1, 2, 3, 7, 6>>,
        <<12, 8, 4, 0, 1, 5>>,
        <<15, 14, 13, 12, 8, 9>>,
        <<3, 7, 11, 15, 14, 10>>,

        <<7, 6, 5, 4, 8, 9>>,
        <<4, 5, 6, 7, 11, 10>>,
        <<11, 10, 9, 8, 4, 5>>,
        <<8, 9, 10, 11, 7, 6>>,
        <<13, 9, 5, 1, 2, 6>>,
        <<1, 5, 9, 13, 14, 10>>,
        <<14, 10, 6, 2, 1, 5>>,
        <<2, 6, 10, 14, 13, 9>>,

        <<0, 1, 5, 9, 8, 4>>,
        <<0, 4, 5, 6, 2, 1>>,
        <<3, 7, 6, 5, 1, 2>>,
        <<3, 2, 6, 10, 11, 7>>,
        <<12, 13, 9, 5, 4, 8>>,
        <<12, 8, 9, 10, 14, 13>>,
        <<15, 11, 10, 9, 13, 14>>,
        <<15, 14, 10, 6, 7, 11>>,

        <<1, 2, 6, 10, 9, 5>>,
        <<2, 1, 5, 9, 10, 6>>,
        <<8, 4, 5, 6, 10, 9>>,
        <<4, 8, 9, 10, 6, 5>>,
        <<7, 11, 10, 9, 5, 6>>,
        <<11, 7, 6, 5, 9, 10>>,
        <<14, 13, 9, 5, 6, 10>>,
        <<13, 14, 10, 6, 5, 9>> >>

\* a variant that deals the patterns out to the tables in turn
TableInTurn(i) == i % 4

\* the table pattern i looks up: net[i/8]
Table(i) == i \div 8

(***************************************************************************)
(* weight_agent::init_weights, entry by entry                              *)
(***************************************************************************)
\* the powers of MAX_INDEX, the weights of the 6 digits of an index
DigitWeight == <<1, 23, 529, 12167, 279841, 6436343>>

\* digit k (0 the last) of index f written in base MAX_INDEX
Digit(f, k) == (f \div DigitWeight[k + 1]) % MAX_INDEX

\* lines 101-118: the loops set the entries that have i6, a value of 20..22,
\* as one of their 6 digits and any value of 0..22 as each other digit
InitNet(f) ==
    IF \/ Digit(f, 0) >= 20
       \/ Digit(f, 1) >= 20
       \/ Digit(f, 2) >= 20
       \/ Digit(f, 3) >= 20
       \/ Digit(f, 4) >= 20
       \/ Digit(f, 5) >= 20
    THEN R(5000) ELSE R(0)

\* net_A[t][f] and net_E[t][f] after init_weights
InitAcc(f) == epsilon

NetAt(nt, key) == IF key \in DOMAIN nt THEN nt[key] ELSE InitNet(key[2])

AccAt(acc, key) == IF key \in DOMAIN acc THEN acc[key] ELSE InitAcc(key[2])

Put(tbl, key, v) ==
    IF key \in DOMAIN tbl THEN [tbl EXCEPT ![key] = v] ELSE tbl @@ (key :> v)

(***************************************************************************)
(* player::get_feature, player::board_value                                *)
(***************************************************************************)
Clamp(c) == IF c > MAX_INDEX - 1 THEN MAX_INDEX - 1 ELSE c

\* one turn of the loop of get_feature on the cell at place k of the pattern
Encode(b, p, k, encode) == encode * MAX_INDEX + Clamp(Cell(b, p[k]))

\* the loop of get_feature, over the tuple_length cells of a pattern
get_feature(b, p) ==
    Encode(b, p, 6, Encode(b, p, 5, Encode(b, p, 4,
        Encode(b, p, 3, Encode(b, p, 2, Encode(b, p, 1, 0))))))

Key(b, i) == <<Table(i), get_feature(b, pattern[i + 1])>>

\* the loop of board_value; acc = [i, value]
RECURSIVE ValueLoop(_, _, _)
ValueLoop(nt, b, acc) ==
    IF acc.i >= tuple_number THEN acc.value
    ELSE ValueLoop(nt, b, [i |-> acc.i + 1,
                           value |-> RAdd(acc.value, NetAt(nt, Key(b, acc.i)))])

board_value(nt, b) == ValueLoop(nt, b, [i |-> 0, value |-> R(0)])

(***************************************************************************)
(* The 2-ply search: player::put_tile, player::move_simulation             *)
(***************************************************************************)
opcode == <<0, 1, 2, 3>>

space == <<0, 1, 2, 3, 4, 5, 6, 7, 8, 9, 10, 11, 12, 13, 14, 15>>

\* a variant that skips no slide
ValidSlideSkipsNone(s) == TRUE

\* line 237 / 285: a slide that reports -1 is skipped
ValidSlide(s) == s.reward # -1

Place(b, pos, tile) == [b EXCEPT ![pos + 1] = tile]

\* the weight of a placed tile: 0.9 for tile 1, 0.1 for tile 2
TileProb(tile) == IF tile = 1 THEN <<9, 10>> ELSE <<1, 10>>

\* the tiles put_tile places on an empty cell
tiles == <<1, 2>>

RECURSIVE put_tile(_, _, _), move_simulation(_, _, _), PutLoop(_, _, _, _),
          TileLoop(_, _, _, _, _), SimLoop(_, _, _, _), SimStep(_, _, _, _, _)

\* lines 262-272, the loop over the tiles on the empty cell pos;
\* t = [k, expectation]
TileLoop(nt, before, depth, pos, t) ==
    IF t.k > Len(tiles) THEN t.expectation
    ELSE TileLoop(nt, before, depth, pos,
                  [k |-> t.k + 1,
                   expectation |->
                       RAdd(t.expectation,
                            RMul(move_simulation(nt, Place(before, pos, tiles[t.k]), depth),
                                 TileProb(tiles[t.k])))])

\* one turn of the loop of put_tile, on cell pos
PutStep(nt, before, depth, acc, pos) ==
    IF Cell(before, pos) # 0 THEN [acc EXCEPT !.k = acc.k + 1]
    ELSE [k |-> acc.k + 1,
          expectation |-> TileLoop(nt, before, depth, pos,
                                   [k |-> 1, expectation |-> acc.expectation]),
          empty_grid |-> acc.empty_grid + 1]

\* the loop of put_tile over space; acc = [k, expectation, empty_grid]
PutLoop(nt, before, depth, acc) ==
    IF acc.k > Len(space) THEN acc
    ELSE PutLoop(nt, before, depth, PutStep(nt, before, depth, acc, space[acc.k]))

\* line 274: expectation /= empty_grid
PutResult(acc) == RDiv(acc.expectation, R(acc.empty_grid))

put_tile(nt, before, depth) ==
    IF depth = 0 THEN board_value(nt, before)
    ELSE PutResult(PutLoop(nt, before, depth,
                           [k |-> 1, expectation |-> R(0), empty_grid |-> 0]))

\* lines 288-292: the best expectation takes in total when it is greater
SimTake(acc, total) ==
    IF RGt(total, acc.best_expectation)
    THEN [k |-> acc.k + 1, best_expectation |-> total, change |-> TRUE]
    ELSE [acc EXCEPT !.k = acc.k + 1]

\* one turn of the loop of move_simulation; s is what slide returned
SimStep(nt, before, depth, acc, s) ==
    IF ~ValidSlide(s) THEN [acc EXCEPT !.k = acc.k + 1]
    ELSE SimTake(acc, RAdd(put_tile(nt, s.board, depth - 1), R(s.reward)))

\* the loop of move_simulation over opcode; acc = [k, best_expectation, change]
SimLoop(nt, before, depth, acc) ==
    IF acc.k > Len(opcode) THEN acc
    ELSE SimLoop(nt, before, depth,
                 SimStep(nt, before, depth, acc, slide(before, opcode[acc.k])))

\* line 294: return change ? best_expectation : 0
SimResult(acc) == IF acc.change THEN acc.best_expectation ELSE R(0)

move_simulation(nt, before, depth) ==
    SimResult(SimLoop(nt, before, depth,
                      [k |-> 1, best_expectation |-> MIN_FLOAT, change |-> FALSE]))

(***************************************************************************)
(* player::take_action                                                     *)
(***************************************************************************)
\* a variant that lets a direction of the same score replace the best one
BetterOrEqual(expectation, reward, best_expectation, best_reward) ==
    RGeq(RAdd(expectation, R(reward)), RAdd(best_expectation, R(best_reward)))

\* line 240: does this direction replace the best one so far
Better(expectation, reward, best_expectation, best_reward) ==
    RGt(RAdd(expectation, R(reward)), RAdd(best_expectation, R(best_reward)))

\* the loop over opcode; st is the locals of take_action (k the place in
\* opcode), and st.zerodiv records that a put_tile called from here divided
\* by an empty_grid of 0
\* lines 240-246: the locals after direction op of afterstate s.board, reward
\* s.reward and the given expectation was weighed
ActTake(st, op, s, expectation) ==
    IF Better(expectation, s.reward, st.best_expectation, st.best_reward)
    THEN [k |-> st.k + 1, best_op |-> op, best_reward |-> s.reward,
          best_expectation |-> expectation, best_afterstate |-> s.board,
          zerodiv |-> st.zerodiv \/ IsNaN(expectation)]
    ELSE [st EXCEPT !.k = st.k + 1, !.zerodiv = st.zerodiv \/ IsNaN(expectation)]

\* one turn of the loop of take_action; s is what slide returned
ActStep(nt, st, op, s) ==
    IF ~ValidSlide(s) THEN [st EXCEPT !.k = st.k + 1]
    ELSE ActTake(st, op, s, put_tile(nt, s.board, 1))

RECURSIVE ActLoop(_, _, _)
ActLoop(nt, before, st) ==
    IF st.k > Len(opcode) THEN st
    ELSE ActLoop(nt, before,
                 ActStep(nt, st, opcode[st.k], slide(before, opcode[st.k])))

\* the locals of take_action when its loop is over
ActLocals(nt, before) ==
    ActLoop(nt, before,
            [k |-> 1, best_op |-> 0, best_reward |-> 0, best_expectation |-> MIN_FLOAT,
             best_afterstate |-> EmptyBoard, zerodiv |-> FALSE])

\* line 248: history gets the best afterstate unless no direction was taken
Pushes(st) == st.best_expectation # MIN_FLOAT

\* line 250: what take_action returns
ActionOf(st) == [type |-> "slide", op |-> st.best_op]

NoAction == [type |-> "none", op |-> -1]

(***************************************************************************)
(* player::train_weights (both overloads)                                  *)
(***************************************************************************)
\* line 317 / 331: fabs(net_E[..]) / net_A[..]
LearningRate(e, a) == RDiv(RFabs(e), a)

\* line 318 / 332: net[..] += history_value * learning_rate / 8
StepW(w, hv, lr) == RAdd(w, RDiv(RMul(hv, lr), R(8)))

\* line 319 / 333: net_E[..] += delta / 8
StepE(e, delta) == RAdd(e, RDiv(delta, R(8)))

\* a variant that adds delta / 8 without the fabs
StepASigned(a, delta) == RAdd(a, RDiv(delta, R(8)))

\* line 320 / 334: net_A[..] += fabs(delta) / 8
StepA(a, delta) == RAdd(a, RDiv(RFabs(delta), R(8)))

\* a variant that blends: alpha * delta * (1 - lembda) + history_value * lembda
TraceBlend(al, delta, hv) ==
    RAdd(RMul(RMul(al, delta), RSub(R(1), lembda)), RMul(hv, lembda))

\* line 313: history_value = alpha * delta + history_value * lembda
TraceMix(al, delta, hv) == RAdd(RMul(al, delta), RMul(hv, lembda))

\* line 312: delta = reward + board_value(next_board) - board_value(prev_board)
BackwardDelta(nt, prev_board, next_board, reward) ==
    RSub(RAdd(R(reward), board_value(nt, next_board)), board_value(nt, prev_board))

\* line 326: delta = board_value(final_board)
FinalDelta(nt, final_board) == board_value(nt, final_board)

\* line 327: history_value = -alpha * delta
FinalTrace(al, delta) == RMul(RNeg(al), delta)

\* the patterns the loop of lines 314 / 328 runs over
UpdatedPatterns == 0..(tuple_number - 1)

\* the loop of lines 314-321 / 328-335; t = [i, net, E, A, touched]
\* lines 316-320 / 330-334 for the entry key of pattern t.i
UpdateStep(t, key, hv, delta) ==
    [i |-> t.i + 1,
     net |-> Put(t.net, key,
                 StepW(NetAt(t.net, key), hv,
                       LearningRate(AccAt(t.E, key), AccAt(t.A, key)))),
     E |-> Put(t.E, key, StepE(AccAt(t.E, key), delta)),
     A |-> Put(t.A, key, StepA(AccAt(t.A, key), delta)),
     touched |-> t.touched \cup {t.i}]

RECURSIVE UpdateLoop(_, _, _, _)
UpdateLoop(t, b, hv, delta) ==
    IF t.i \notin UpdatedPatterns THEN t
    ELSE UpdateLoop(UpdateStep(t, Key(b, t.i), hv, delta), b, hv, delta)

\* what a train_weights leaves: the tables t of its loop, the trace hv, and
\* the record step of what it did
Trained(st, t, hv, step) ==
    [net |-> t.net, E |-> t.E, A |-> t.A, hv |-> hv,
     steps |-> Append(st.steps, [step EXCEPT !.touched = t.touched])]

\* lines 328-335 with the delta and history_value of lines 326-327
FinalUpdate(st, final_board, idx, delta, hv) ==
    Trained(st,
            UpdateLoop([i |-> 0, net |-> st.net, E |-> st.E, A |-> st.A, touched |-> {}],
                       final_board, hv, delta),
            hv,
            [kind |-> "final", prev |-> idx, next |-> idx, reward |-> 0,
             vprev |-> board_value(st.net, final_board), vnext |-> R(0),
             delta |-> delta, hv_in |-> st.hv, hv_out |-> hv, touched |-> {}])

FinalStep(st, al, final_board, idx, delta) ==
    FinalUpdate(st, final_board, idx, delta, FinalTrace(al, delta))

\* train_weights(final_board, history_value); st = [net, E, A, hv, steps]
\* idx is the history index the board was read from
TrainFinal(st, al, final_board, idx) ==
    FinalStep(st, al, final_board, idx, FinalDelta(st.net, final_board))

\* lines 314-321 with the delta and history_value of lines 312-313
BackwardUpdate(st, i, prev_board, next_board, reward, delta, hv) ==
    Trained(st,
            UpdateLoop([i |-> 0, net |-> st.net, E |-> st.E, A |-> st.A, touched |-> {}],
                       prev_board, hv, delta),
            hv,
            [kind |-> "backward", prev |-> i, next |-> i + 1, reward |-> reward,
             vprev |-> board_value(st.net, prev_board),
             vnext |-> board_value(st.net, next_board),
             delta |-> delta, hv_in |-> st.hv, hv_out |-> hv, touched |-> {}])

BackwardStep(st, al, i, prev_board, next_board, reward, delta) ==
    BackwardUpdate(st, i, prev_board, next_board, reward, delta,
                   TraceMix(al, delta, st.hv))

BackwardArgs(st, al, i, prev_board, next_board, reward) ==
    BackwardStep(st, al, i, prev_board, next_board, reward,
                 BackwardDelta(st.net, prev_board, next_board, reward))

\* train_weights(prev_board, next_board, reward, history_value), called as
\* on line 304
TrainBackward(st, al, h, i) ==
    BackwardArgs(st, al, i, h[i + 1].afterstate, h[i + 2].afterstate, h[i + 2].reward)

(***************************************************************************)
(* player::close_episode                                                   *)
(***************************************************************************)
\* line 302: the first index of the backward loop
FirstBackward(n) == n - 2

\* a variant whose loop stops before i = 0
BackwardStopsEarly(i) == i > 0

\* line 302: the loop runs while i >= 0
BackwardGoesOn(i) == i >= 0

\* the loop of lines 302-305, i counting down
RECURSIVE BackwardLoop(_, _, _, _)
BackwardLoop(st, al, h, i) ==
    IF ~BackwardGoesOn(i) THEN st
    ELSE BackwardLoop(TrainBackward(st, al, h, i), al, h, i - 1)

\* lines 300-305 once history[history.size()-1] has been read as final_board
CloseRun(nt, e, a, al, h, final_board) ==
    LET st0 == [net |-> nt, E |-> e, A |-> a, hv |-> R(0), steps |-> <<>>]
        st1 == TrainFinal(st0, al, final_board, Len(h) - 1)
    IN  BackwardLoop(st1, al, h, FirstBackward(Len(h)))

(***************************************************************************)
(* Inputs                                                                  *)
(***************************************************************************)
\* no slide changes this board
TerminalBoard == <<1, 2, 1, 2,  2, 1, 2, 1,  1, 2, 1, 2,  2, 1, 2, 1>>

\* full; right and left merge the first row (reward 4 each), left scores more
FullBoard == <<1, 1, 2, 1,  2, 3, 1, 2,  1, 2, 3, 1,  2, 1, 2, 3>>

\* full; right and left merge the first row (reward 8 each) and, on the
\* tables of init_weights, score the same
TieBoard == <<3, 2, 2, 3,  2, 3, 1, 2,  1, 2, 3, 1,  2, 1, 2, 3>>

\* the boards take_action is called with
Boards == {TerminalBoard, FullBoard, TieBoard}

EmptyCount(b) == Cardinality({i \in 0..15 : Cell(b, i) = 0})

ValidOps(b) == {op \in 0..3 : ValidSlide(slide(b, op))}

IsTerminal(b) == \A op \in 0..3 : slide(b, op).reward = -1

Afterstates(bs) == {slide(b, op).board : b \in bs, op \in 0..3}

Placements(bs) ==
    UNION {{Place(b, pos, tile) : pos \in {i \in 0..15 : Cell(b, i) = 0}, tile \in {1, 2}} :
           b \in bs}

\* the boards put_tile is called with: those above and the boards the search
\* reaches from them
PutBoards ==
    LET after == Afterstates(Boards)
        placed == Placements(after)
    IN  Boards \cup after \cup placed \cup Afterstates(placed)

\* the depths put_tile is called with: take_action passes 1, move_simulation depth - 1
Depths == {0, 1}

\* the values of alpha: the constructor's 0, and an "alpha=0.5" argument
Alphas == {R(0), <<1, 2>>}

\* what history[history.size()-1] can read when history is empty
GarbageBoards == {EmptyBoard, FullBoard}

(***************************************************************************)
(* The state machine                                                       *)
(***************************************************************************)
\* weight_agent::weight_agent with init=... and alpha=...; player::player
Init ==
    /\ net = <<>>
    /\ net_E = <<>>
    /\ net_A = <<>>
    /\ alpha \in Alphas
    /\ history = <<>>
    /\ alive = TRUE
    /\ episodes = 0
    /\ last = [op |-> "init"]

\* player::take_action(before)
TakeAction(before) ==
    /\ alive
    /\ episodes < MaxEpisodes
    /\ \E st \in {ActLocals(net, before)} :
          /\ Pushes(st) => Len(history) < MaxHist
          /\ history' = IF Pushes(st)
                        THEN Append(history, [afterstate |-> st.best_afterstate,
                                              reward |-> st.best_reward])
                        ELSE history
          /\ last' = [op |-> "take_action", before |-> before, ret |-> ActionOf(st),
                      zerodiv |-> st.zerodiv]
    /\ UNCHANGED <<net, net_E, net_A, alpha, alive, episodes>>

\* player::close_episode on a history that holds an entry
CloseEpisode ==
    /\ alive
    /\ episodes < MaxEpisodes
    /\ history # <<>>
    /\ \E st \in {CloseRun(net, net_E, net_A, alpha, history,
                           history[Len(history)].afterstate)} :
           /\ net' = st.net
           /\ net_E' = st.E
           /\ net_A' = st.A
           /\ last' = [op |-> "close_episode", n |-> Len(history), oob |-> FALSE,
                       steps |-> st.steps]
    /\ history' = <<>>
    /\ episodes' = episodes + 1
    /\ UNCHANGED <<alpha, alive>>

\* player::close_episode on an empty history: history[history.size()-1] reads
\* outside the vector, and the board read there is whatever lies in that memory
CloseEpisodeEmpty(garbage) ==
    /\ alive
    /\ episodes < MaxEpisodes
    /\ history = <<>>
    /\ \E st \in {CloseRun(net, net_E, net_A, alpha, history, garbage)} :
           /\ net' = st.net
           /\ net_E' = st.E
           /\ net_A' = st.A
           /\ last' = [op |-> "close_episode", n |-> 0, oob |-> TRUE, steps |-> st.steps]
    /\ history' = <<>>
    /\ episodes' = episodes + 1
    /\ UNCHANGED <<alpha, alive>>

\* the same read, when that memory is not mapped: the process dies
CloseEpisodeCrash ==
    /\ alive
    /\ episodes < MaxEpisodes
    /\ history = <<>>
    /\ alive' = FALSE
    /\ last' = [op |-> "close_episode", n |-> 0, oob |-> TRUE, steps |-> <<>>]
    /\ UNCHANGED <<net, net_E, net_A, alpha, history, episodes>>

Next ==
    \/ \E before \in Boards : TakeAction(before)
    \/ CloseEpisode
    \/ \E garbage \in GarbageBoards : CloseEpisodeEmpty(garbage)
    \/ CloseEpisodeCrash

Spec == Init /\ [][Next]_vars

(***************************************************************************)
(* player::put_tile called on its own: the arguments are drawn first, the  *)
(* call follows                                                            *)
(***************************************************************************)
InitPut ==
    /\ net = <<>>
    /\ net_E = <<>>
    /\ net_A = <<>>
    /\ alpha \in Alphas
    /\ history = <<>>
    /\ alive = TRUE
    /\ episodes = 0
    /\ \E before \in PutBoards, depth \in Depths :
          last = [op |-> "arguments", before |-> before, depth |-> depth]

PutTileCall ==
    /\ last.op = "arguments"
    /\ last' = [op |-> "put_tile", before |-> last.before, depth |-> last.depth,
                ret |-> put_tile(net, last.before, last.depth)]
    /\ UNCHANGED <<net, net_E, net_A, alpha, history, alive, episodes>>

NextPut == PutTileCall

SpecPut == InitPut /\ [][NextPut]_vars

(***************************************************************************)
(* The symmetries of the 4x4 grid                                          *)
(***************************************************************************)
\* a quarter turn and the mirror image, as maps of the cell index
Rot(i) == (i % 4) * 4 + (3 - (i \div 4))

Ref(i) == (i \div 4) * 4 + (3 - (i % 4))

RECURSIVE RotN(_, _)
RotN(n, i) == IF n = 0 THEN i ELSE RotN(n - 1, Rot(i))

\* symmetry k of 0..7: k % 4 quarter turns, then the mirror image when k >= 4
Sym(k, i) == IF k >= 4 THEN Ref(RotN(k % 4, i)) ELSE RotN(k % 4, i)

Transform(b, k) == [j \in 1..16 |-> b[Sym(k, j - 1) + 1]]

MapPattern(k, p) == [j \in 1..Len(p) |-> Sym(k, p[j])]

\* the cell sequences of the patterns that share table g
PatternGroup(g) == {pattern[i + 1] : i \in {j \in 0..(tuple_number - 1) : Table(j) = g}}

GroupsClosed ==
    \A g \in 0..3, k \in 0..7 : {MapPattern(k, p) : p \in PatternGroup(g)} = PatternGroup(g)

\* the boards the symmetry of board_value is checked on
SymBoards == Boards \cup Afterstates(Boards)

\* how many patterns of the table of key read the entry key on board b
Hits(b, key) == Cardinality({i \in 0..(tuple_number - 1) : Key(b, i) = key})

\* reward + put_tile(afterstate, 1) for direction op
Score(nt, b, op) == RAdd(put_tile(nt, slide(b, op).board, 1), R(slide(b, op).reward))

\* the directions that change b, each with its score
Scores(nt, b) == {<<op, Score(nt, b, op)>> : op \in ValidOps(b)}

\* the first direction, in the order 0, 1, 2, 3, among those of the highest score
FirstMax(scores) ==
    (CHOOSE p \in scores :
        \A q \in scores : /\ ~RGt(q[2], p[2])
                          /\ q[1] < p[1] => RGt(p[2], q[2]))[1]

(***************************************************************************)
(* Claims                                                                  *)
(***************************************************************************)

\* C1 (as claimed): take_action on a board no slide changes returns the
\* no-op action, not a slide, and leaves history as it was.
C1_TerminalNoOp ==
    [][(last'.op = "take_action" /\ IsTerminal(last'.before))
          => (last'.ret = NoAction /\ history' = history)]_vars

\* C2 (as claimed): close_episode on an empty history reads no history entry
\* and leaves net, net_E, net_A and history as they were.
C2_EmptyHistoryNoOp ==
    [][(last'.op = "close_episode" /\ history = <<>>)
          => (/\ ~last'.oob
              /\ last'.steps = <<>>
              /\ UNCHANGED <<net, net_E, net_A, history>>)]_vars

C4_FullBoardValueZero ==
    (last.op = "put_tile" /\ last.depth >= 1 /\ EmptyCount(last.before) = 0)
        => (last.ret = R(0) /\ ~IsNaN(last.ret))

\* C5: on a board some slide changes, take_action returns the first direction
\* among those of the highest reward + put_tile(afterstate, 1), and appends to
\* history that direction's afterstate and reward, and nothing else.
C5_FirstBestDirection ==
    [][(last'.op = "take_action" /\ ~IsTerminal(last'.before))
          => \A c \in {FirstMax(Scores(net, last'.before))} :
             \A s \in {slide(last'.before, c)} :
                /\ last'.ret = [type |-> "slide", op |-> c]
                /\ history' = Append(history, [afterstate |-> s.board,
                                               reward |-> s.reward])]_vars

\* C5 witness: two directions of TieBoard score the same, the first was
\* returned and its afterstate is the last history entry
C5_Witness ==
    /\ last.op = "take_action"
    /\ last.before = TieBoard
    /\ Score(net, TieBoard, 1) = Score(net, TieBoard, 3)
    /\ last.ret = [type |-> "slide", op |-> 1]
    /\ history # <<>>
    /\ history[Len(history)].afterstate = slide(TieBoard, 1).board

C7_TwoPolicies ==
    last.op = "close_episode"
        => \A j \in 1..Len(last.steps) :
              LET st == last.steps[j]
                  delta == RSub(RAdd(R(st.reward), st.vnext), st.vprev)
                  ad == RMul(alpha, delta)
              IN  st.kind = "backward"
                     => \/ st.hv_out = ad
                        \/ st.hv_out = RAdd(RMul(ad, RSub(R(1), <<1, 2>>)),
                                            RMul(st.hv_in, <<1, 2>>))

\* C7 (amended): in every backward step the trace becomes
\* alpha * delta + trace * lambda with lambda = 0.5, where
\* delta = reward(i+1) + value(afterstate i+1) - value(afterstate i).
C7_AccumulatingTrace ==
    last.op = "close_episode"
        => \A j \in 1..Len(last.steps) :
              LET st == last.steps[j]
                  delta == RSub(RAdd(R(st.reward), st.vnext), st.vprev)
              IN  st.kind = "backward"
                     => st.hv_out = RAdd(RMul(alpha, delta), RMul(st.hv_in, <<1, 2>>))

\* C7 witness: a backward step that carried a trace other than 0 and had an
\* alpha * delta other than 0
C7_Witness ==
    /\ last.op = "close_episode"
    /\ \E j \in 1..Len(last.steps) :
          /\ last.steps[j].kind = "backward"
          /\ last.steps[j].hv_in # R(0)
          /\ RMul(alpha, last.steps[j].delta) # R(0)

\* C8 (as claimed): in the final step delta = -value(last afterstate); the
\* trace is alpha * delta, and each pattern adds delta / 8 to its net_E entry
\* and |delta| / 8 to its net_A entry.
C8_FinalStepAccumulators ==
    [][(last'.op = "close_episode" /\ Len(history) = 1)
          => LET b == history[1].afterstate
                 delta == RNeg(board_value(net, b))
             IN  /\ last'.steps[1].hv_out = RMul(alpha, delta)
                 /\ \A i \in 0..31 :
                       LET key == Key(b, i)
                           h == R(Hits(b, key))
                       IN  /\ RSub(AccAt(net_E', key), AccAt(net_E, key))
                              = RMul(h, RDiv(delta, R(8)))
                           /\ RSub(AccAt(net_A', key), AccAt(net_A, key))
                              = RMul(h, RDiv(RFabs(delta), R(8)))]_vars

\* C9: no entry of net_A ever goes below the epsilon of init_weights, and no
\* step lowers an entry; so the divisor of the learning rate is never 0.
C9_AccumulatorAtLeastEpsilon ==
    [][\A key \in DOMAIN net_A' :
          /\ RGeq(net_A'[key], epsilon)
          /\ RGeq(net_A'[key], AccAt(net_A, key))
          /\ ~IsNaN(LearningRate(AccAt(net_E', key), net_A'[key]))]_vars

\* C9 witness: an entry of net_A that two episodes have raised
C9_Witness ==
    /\ episodes = 2
    /\ \E key \in DOMAIN net_A : RGt(net_A[key], epsilon)
    /\ \E key \in DOMAIN net_E : RGt(RFabs(AccAt(net_A, key)), RFabs(net_E[key]))

\* C10: no put_tile that take_action calls divides by an empty_grid of 0:
\* each afterstate of a slide that is not reported invalid has an empty cell.
C10_NoZeroDivisorFromTakeAction ==
    /\ last.op = "take_action" => ~last.zerodiv
    /\ \A b \in Boards \cup Placements(Afterstates(Boards)), op \in 0..3 :
          ValidSlide(slide(b, op)) => EmptyCount(slide(b, op).board) >= 1

\* C10 witness: take_action on a full board returned a slide and pushed its
\* afterstate
C10_Witness ==
    /\ last.op = "take_action"
    /\ EmptyCount(last.before) = 0
    /\ ~IsTerminal(last.before)
    /\ history # <<>>
    /\ EmptyCount(history[Len(history)].afterstate) >= 1

====
